---- MODULE Spec2Model ----
(***************************************************************************)
(* Model of timeseries/stats_task.py: the periodic statistics task of the  *)
(* bot.  update_task runs the five collectors of run_events in a loop;     *)
(* each collector reads host state and publishes label -> value pairs into *)
(* one or more categories of bot.stats with setattr.                       *)
(*                                                                         *)
(* A category (a SimpleNamespace) is a function from the labels that have  *)
(* been set to their values.  A Counter is a function from the keys that   *)
(* have been assigned to integers; a defaultdict(set) is a function from   *)
(* the keys that have been touched to sets of ids.                         *)
(***************************************************************************)
EXTENDS Integers, Sequences, FiniteSets, TLC

(***************************************************************************)
(* Bounds of the host data the collectors read.                            *)
(***************************************************************************)
MaxGuilds == 2          \* guild ids are 1..MaxGuilds
MaxMembers == 2         \* member ids are 1..MaxMembers
MaxShards == 2          \* bot.latencies has at most MaxShards entries
MaxLatency == 3         \* shard latency, in units of half a millisecond
MaxBalance == 1         \* balance of one bank account
MaxPlayers == 1         \* lavalink players
MaxVotes == 1           \* "points" / "monthlyPoints" of the vote service
MaxPasses == 2          \* passes of one collector in SpecBot, SpecAudio, SpecAdventure
MaxAudioPlayers == 2     \* lavalink players in SpecAudio
MaxUsers == 2            \* save records of the Adventure cog in SpecAdventure
MaxAdventures == 2       \* wins / loses of one save record in SpecAdventure

(***************************************************************************)
(* Values the host can hand to the code.                                   *)
(***************************************************************************)
NaN == -1               \* float('nan') as a latency
Inf == -2               \* float('inf') as a latency
Missing == -1           \* an attribute / key that is absent
Me == 1                 \* id of the bot's own member (guild.me, bot.user.id)

GuildIds == 1..MaxGuilds
MemberIds == 1..MaxMembers
Tiers == 0..3           \* discord premium_tier

EmptyMap == [k \in {} |-> 0]

(***************************************************************************)
(* Counter / defaultdict(set) / setattr primitives.                        *)
(***************************************************************************)
\* counter[k] += n : a missing key counts as 0 and is created
Inc(c, k, n) ==
    IF k \in DOMAIN c THEN [c EXCEPT ![k] = @ + n] ELSE c @@ (k :> n)

\* counter[k] = v
Put(c, k, v) ==
    IF k \in DOMAIN c THEN [c EXCEPT ![k] = v] ELSE c @@ (k :> v)

\* defaultdict(set)[k].add(x)
Add(d, k, x) ==
    IF k \in DOMAIN d THEN [d EXCEPT ![k] = @ \cup {x}] ELSE d @@ (k :> {x})

\* for key, value in counter.items(): setattr(ns, str(key), value)
\* a label of ns that is not a key of the counter keeps its old value
SetAttrs(ns, c) ==
    [k \in DOMAIN ns \cup DOMAIN c |-> IF k \in DOMAIN c THEN c[k] ELSE ns[k]]

\* for key, value in temp_data.items(): counter[key] = len(value)
Flatten(c, d) ==
    [k \in DOMAIN c \cup DOMAIN d |->
        IF k \in DOMAIN d THEN Cardinality(d[k]) ELSE c[k]]

\* the value of a label, 0 when the label is absent (display default)
Val(ns, k) == IF k \in DOMAIN ns THEN ns[k] ELSE 0

(***************************************************************************)
(* Lookup tables of the module.                                            *)
(***************************************************************************)
verify ==
    [none |-> "None", low |-> "Low", medium |-> "Medium", high |-> "High",
     extreme |-> "Extreme"]

features ==
    [VIP_REGIONS |-> "VIP Voice Servers", VANITY_URL |-> "Vanity URL",
     INVITE_SPLASH |-> "Splash Invite", VERIFIED |-> "Verified",
     PARTNERED |-> "Partnered", MORE_EMOJI |-> "More Emojis",
     DISCOVERABLE |-> "Server Discovery", FEATURABLE |-> "Featurable",
     COMMERCE |-> "Commerce", PUBLIC |-> "Public", NEWS |-> "News Channels",
     BANNER |-> "Banner Image", ANIMATED_ICON |-> "Animated Icon",
     PUBLIC_DISABLED |-> "Public disabled",
     MEMBER_LIST_DISABLED |-> "Member list disabled",
     ENABLED_DISCOVERABLE_BEFORE |-> "Was in Server Discovery",
     WELCOME_SCREEN_ENABLED |-> "Welcome Screen"]

\* table.get(key) or 'Unknown'
Lookup(table, key) == IF key \in DOMAIN table THEN table[key] ELSE "Unknown"

(***************************************************************************)
(* Host object graph.  What varies between passes is the guild list and,   *)
(* per guild, unavailable / premium_tier / members / member_count; the     *)
(* other attributes of a guild and the presence of a member are fixed by   *)
(* their id.                                                               *)
(***************************************************************************)
MemberBot(m) == m = Me
MemberOnMobile(m) == m % 2 = 0
MemberStatus(m) ==
    CASE m % 4 = 1 -> "online"
      [] m % 4 = 2 -> "dnd"
      [] m % 4 = 3 -> "offline"
      [] OTHER -> "idle"
MemberActivities(m) ==
    CASE m % 4 = 1 -> <<"listening", "custom">>
      [] m % 4 = 2 -> <<"playing">>
      [] m % 4 = 3 -> <<"watching", "streaming">>
      [] OTHER -> <<>>
MemberMobileStatus(m) == IF MemberOnMobile(m) THEN MemberStatus(m) ELSE "offline"
MemberDesktopStatus(m) == IF MemberOnMobile(m) THEN "offline" ELSE MemberStatus(m)
MemberWebStatus(m) == IF m % 3 = 0 THEN "idle" ELSE "offline"

GuildFeatures(id) == IF id % 2 = 1 THEN <<"VIP_REGIONS">> ELSE <<"FOO_BAR", "NEWS">>
GuildVerification(id) == IF id % 2 = 1 THEN "low" ELSE "very_high"

\* channels of a guild: a text channel, a voice channel holding the members
\* of the guild, and (even ids) a category
GuildChannels(id, members) ==
    <<[kind |-> "text", id |-> 10 * id + 1, nsfw |-> id % 2 = 0,
       news |-> id % 2 = 1, members |-> {}],
      [kind |-> "voice", id |-> 10 * id + 2, nsfw |-> FALSE, news |-> FALSE,
       members |-> members]>>
    \o (IF id % 2 = 0
        THEN <<[kind |-> "category", id |-> 10 * id + 3, nsfw |-> FALSE,
                news |-> FALSE, members |-> {}]>>
        ELSE <<>>)

\* guild.emojis as the sequence of emoji.animated
GuildEmojis(id) == IF id % 2 = 1 THEN <<TRUE, FALSE>> ELSE <<FALSE>>

Guild(id, unavailable, tier, members, count) ==
    [id |-> id, unavailable |-> unavailable, premium_tier |-> tier,
     members |-> members, member_count |-> count,
     features |-> GuildFeatures(id),
     verification_level |-> GuildVerification(id),
     roles |-> id, large |-> id % 2 = 0, chunked |-> id % 2 = 1,
     channels |-> GuildChannels(id, members), emojis |-> GuildEmojis(id)]

(***************************************************************************)
(* write_bot_data: the tally of one pass.                                  *)
(***************************************************************************)
BotOrHuman(m, botLabel, humanLabel) == IF MemberBot(m) THEN botLabel ELSE humanLabel

\* temp_data["Users X"].add(id); temp_data["Bots X" / "Humans X"].add(id)
AddSplit(td, m, users, bots, humans) ==
    Add(Add(td, users, m), BotOrHuman(m, bots, humans), m)

\* one activity of a member (lines 213-244)
TallyActivity(td, m, a) ==
    CASE a = "streaming" ->
            AddSplit(td, m, "Users Streaming", "Bots Streaming", "Humans Streaming")
      [] a = "playing" ->
            AddSplit(td, m, "Users Gaming", "Bots Gaming", "Humans Gaming")
      [] a = "listening" ->
            AddSplit(td, m, "Users Listening", "Bots Listening", "Humans Listening")
      [] a = "watching" ->
            AddSplit(td, m, "Users Watching", "Bots Watching", "Humans Watching")
      [] a = "custom" ->
            AddSplit(td, m, "Users with Custom Status",
                     "Bots with Custom Status", "Humans with Custom Status")
      [] OTHER -> td

RECURSIVE TallyActivities(_, _, _)
TallyActivities(td, m, acts) ==
    IF acts = <<>> THEN td
    ELSE TallyActivities(TallyActivity(td, m, Head(acts)), m, Tail(acts))

\* presence of a member that is not streaming (lines 245-275)
TallyStatus(td, m) ==
    LET s == MemberStatus(m)
        t1 == IF s # "offline"
              THEN AddSplit(td, m, "Users Connected", "Bots Connected",
                            "Humans Connected")
              ELSE td
    IN  CASE s = "online" ->
                AddSplit(t1, m, "Users Online", "Bots Online", "Humans Online")
          [] s = "idle" ->
                AddSplit(t1, m, "Idle Users", "Idle Bots", "Idle Humans")
          [] s = "dnd" ->
                AddSplit(t1, m, "Users in Do Not Disturb",
                         "Bots in Do Not Disturb", "Humans in Do Not Disturb")
          [] s = "offline" ->
                AddSplit(t1, m, "Users Offline", "Bots Offline", "Human Offline")
          [] OTHER -> t1

\* presence on one platform (lines 277-302)
TallyPlatform(td, m, s, platform) ==
    CASE s = "online" -> Add(td, "Users Online on " \o platform, m)
      [] s = "idle" -> Add(td, "Users Idle on " \o platform, m)
      [] s = "dnd" -> Add(td, "Users in Do Not Disturb on " \o platform, m)
      [] s = "offline" -> Add(td, "Users Offline on " \o platform, m)
      [] OTHER -> td

\* one member of a guild (lines 198-302)
TallyMember(td, m, detailed) ==
    LET t1 == Add(Add(td, "Unique Users", m), BotOrHuman(m, "Bots", "Humans"), m)
    IN  IF ~detailed THEN t1
        ELSE
        LET t2 == IF MemberOnMobile(m) THEN Add(t1, "Mobile Users", m) ELSE t1
            acts == MemberActivities(m)
            t3 == TallyActivities(t2, m, acts)
            streaming == \E i \in DOMAIN acts : acts[i] = "streaming"
            t4 == IF streaming THEN t3 ELSE TallyStatus(t3, m)
            t5 == TallyPlatform(t4, m, MemberMobileStatus(m), "Mobile")
            t6 == TallyPlatform(t5, m, MemberDesktopStatus(m), "Desktop")
        IN  TallyPlatform(t6, m, MemberWebStatus(m), "Browser")

RECURSIVE TallyMembers(_, _, _)
TallyMembers(td, ms, detailed) ==
    IF ms = {} THEN td
    ELSE LET m == CHOOSE x \in ms : \A y \in ms : x <= y
         IN  TallyMembers(TallyMember(td, m, detailed), ms \ {m}, detailed)

\* one channel of a guild (lines 165-187); acc has the fields counter,
\* server_counter and temp_data
TallyChannel(acc, ch) ==
    LET sc1 == Inc(acc.server_counter, "Server Channels", 1)
    IN  CASE ch.kind = "text" ->
            LET t1 == IF ch.nsfw
                      THEN Add(acc.temp_data, "NSFW Text Channels", ch.id)
                      ELSE acc.temp_data
                t2 == IF ch.news THEN Add(t1, "News Text Channels", ch.id) ELSE t1
            IN  [acc EXCEPT !.server_counter = Inc(sc1, "Text Channels", 1),
                            !.temp_data = t2]
          [] ch.kind = "voice" ->
            LET sc2 == Inc(sc1, "Voice Channels", 1)
                c1 == Inc(acc.counter, "Users in a VC", Cardinality(ch.members))
                mobile == {m \in ch.members : MemberOnMobile(m)}
                bots == {m \in ch.members : MemberBot(m)}
            IN  IF Me \in ch.members
                THEN [acc EXCEPT
                        !.counter = Inc(c1, "Users in a VC with me",
                                        Cardinality(ch.members) - 1),
                        !.server_counter = Inc(sc2, "Bots in a VC with me",
                                               Cardinality(bots) - 1),
                        !.temp_data =
                            IF mobile = {} THEN @
                            ELSE [k \in DOMAIN @ \cup {"Users in a VC on Mobile"} |->
                                    IF k = "Users in a VC on Mobile"
                                    THEN (IF k \in DOMAIN @ THEN @[k] ELSE {})
                                         \cup mobile
                                    ELSE @[k]]]
                ELSE [acc EXCEPT !.counter = c1, !.server_counter = sc2]
          [] ch.kind = "category" ->
            [acc EXCEPT !.server_counter = Inc(sc1, "Channel Categories", 1)]
          [] OTHER -> [acc EXCEPT !.server_counter = sc1]

RECURSIVE TallyChannels(_, _)
TallyChannels(acc, chs) ==
    IF chs = <<>> THEN acc
    ELSE TallyChannels(TallyChannel(acc, Head(chs)), Tail(chs))

\* for emoji in guild.emojis (lines 189-195)
RECURSIVE TallyEmojis(_, _)
TallyEmojis(sc, es) ==
    IF es = <<>> THEN sc
    ELSE TallyEmojis(
            Inc(Inc(sc, "Emojis", 1),
                IF Head(es) THEN "Animated Emojis" ELSE "Static Emojis", 1),
            Tail(es))

\* for feature in guild.features (lines 145-146)
RECURSIVE TallyFeatures(_, _)
TallyFeatures(fc, fs) ==
    IF fs = <<>> THEN fc
    ELSE TallyFeatures(Inc(fc, Lookup(features, Head(fs)), 1), Tail(fs))

\* boost buckets of one guild (lines 154-162)
TallyBoost(std, g) ==
    LET tier == g.premium_tier
        s1 == IF tier # 0 THEN Add(std, "Nitro Boosted", g.id) ELSE std
    IN  CASE tier = 1 -> Add(s1, "Tier 1 Nitro", g.id)
          [] tier = 2 -> Add(s1, "Tier 2 Nitro", g.id)
          [] tier = 3 -> Add(s1, "Tier 3 Nitro", g.id)
          [] OTHER -> s1

\* getattr(guild, "member_count", 0)
MemberCount(g) == IF g.member_count = Missing THEN 0 ELSE g.member_count

\* the part of the guild loop after the `continue` (lines 142-302)
TallyAvailable(acc, g, lightmode, detailed) ==
    LET a1 == [acc EXCEPT !.server_counter = Inc(@, "Members", MemberCount(g))]
        a2 == IF lightmode THEN a1
              ELSE
              LET d1 == IF detailed
                        THEN [a1 EXCEPT
                                !.features_count = TallyFeatures(@, g.features),
                                !.verify_count =
                                    Inc(@, Lookup(verify, g.verification_level), 1)]
                        ELSE a1
                  d2 == [d1 EXCEPT
                            !.server_counter = Inc(@, "Roles", g.roles),
                            !.server_temp_data =
                                TallyBoost(
                                    LET l == IF g.large THEN Add(@, "Large", g.id)
                                             ELSE @
                                    IN  IF ~g.chunked THEN Add(l, "Unchunked", g.id)
                                        ELSE l,
                                    g)]
                  d3 == TallyChannels(d2, g.channels)
              IN  [d3 EXCEPT !.server_counter = TallyEmojis(@, g.emojis)]
    IN  [a2 EXCEPT !.temp_data = TallyMembers(@, g.members, detailed)]

\* one iteration of `for guild in bot.guilds` (lines 136-302)
TallyGuild_count_unavailable(acc, g, lightmode, detailed) ==
    TallyAvailable(
        IF g.unavailable
        THEN [acc EXCEPT !.server_temp_data = Add(@, "Unavailable", g.id)]
        ELSE acc,
        g, lightmode, detailed)
TallyGuild(acc, g, lightmode, detailed) ==
    IF g.unavailable
    THEN [acc EXCEPT !.server_temp_data = Add(@, "Unavailable", g.id)]
    ELSE TallyAvailable(acc, g, lightmode, detailed)

RECURSIVE TallyGuilds(_, _, _, _)
TallyGuilds(acc, gs, lightmode, detailed) ==
    IF gs = <<>> THEN acc
    ELSE TallyGuilds(TallyGuild(acc, Head(gs), lightmode, detailed), Tail(gs),
                     lightmode, detailed)

\* counters written before the guild loop (lines 125-135); lat is bot.latency
\* in half milliseconds (or NaN / Inf)
RoundMs(h) ==
    LET q == h \div 2
    IN  IF h % 2 = 0 THEN q ELSE IF q % 2 = 0 THEN q ELSE q + 1

Truthy(m, k) == k \in DOMAIN m /\ m[k] # 0

BotHeader(vote_data, lat, shard_count) ==
    LET c1 == IF Truthy(vote_data, "monthlyPoints")
              THEN Put(EmptyMap, "Monthly Votes", vote_data["monthlyPoints"])
              ELSE EmptyMap
        c2 == IF Truthy(vote_data, "points")
              THEN Put(c1, "Votes", vote_data["points"])
              ELSE c1
        \* with contextlib.suppress(OverflowError)
        c3 == IF lat = Inf THEN c2 ELSE Put(c2, "Discord Latency", RoundMs(lat))
    IN  Put(c3, "Shards", shard_count)

\* the working counters after the guild loop and the flattening (lines 117-307)
BotCounters(vote_data, lat, shard_count, gs, lightmode, detailed) ==
    LET acc0 == [counter |-> BotHeader(vote_data, lat, shard_count),
                 server_counter |-> Put(EmptyMap, "Total", Len(gs)),
                 region_count |-> EmptyMap,
                 verify_count |-> EmptyMap,
                 features_count |-> EmptyMap,
                 temp_data |-> EmptyMap,
                 server_temp_data |-> EmptyMap]
        acc == TallyGuilds(acc0, gs, lightmode, detailed)
    IN  [counter |-> Flatten(acc.counter, acc.temp_data),
         server_counter |-> Flatten(acc.server_counter, acc.server_temp_data),
         region_count |-> acc.region_count,
         verify_count |-> acc.verify_count,
         features_count |-> acc.features_count]

\* the five setattr loops of write_bot_data (lines 309-319)
PublishBot(st, c) ==
    [st EXCEPT !.bot = SetAttrs(@, c.counter),
               !.guilds = SetAttrs(@, c.server_counter),
               !.guilds_regions = SetAttrs(@, c.region_count),
               !.guild_features = SetAttrs(@, c.features_count),
               !.guild_verification = SetAttrs(@, c.verify_count)]

(***************************************************************************)
(* get_votes.  A response of the vote service is the record               *)
(*   key     : an API key is configured                                    *)
(*   error   : the exception the request raises ("none" if it completes)   *)
(*   status  : the HTTP status                                             *)
(*   body    : the parsed JSON body                                        *)
(***************************************************************************)
Suppressed == {"ServerTimeoutError", "TimeoutError"}

GetVotes(resp) ==
    IF ~resp.key THEN [raised |-> FALSE, data |-> EmptyMap]
    ELSE IF resp.error # "none"
         THEN [raised |-> resp.error \notin Suppressed, data |-> EmptyMap]
         ELSE IF resp.status # 200
              THEN [raised |-> FALSE, data |-> EmptyMap]
              ELSE [raised |-> FALSE, data |-> resp.body]

(***************************************************************************)
(* write_shards_data: one setattr per shard, in order; int(latency * 1000) *)
(* raises on nan and inf.  lats is bot.latencies as the sequence of the    *)
(* latencies (half milliseconds) of shards 0, 1, ...                       *)
(***************************************************************************)
RECURSIVE ShardsLoop(_, _, _)
ShardsLoop(ns, lats, i) ==
    IF i > Len(lats) THEN [raised |-> FALSE, ns |-> ns]
    ELSE IF lats[i] \in {NaN, Inf} THEN [raised |-> TRUE, ns |-> ns]
         ELSE ShardsLoop(Put(ns, ToString(i), lats[i] \div 2), lats, i + 1)

(***************************************************************************)
(* write_currency_data: accounts is the sequence of the balances, Missing  *)
(* for a record without "balance".                                         *)
(***************************************************************************)
RECURSIVE CurrencySum(_)
CurrencySum(accs) ==
    IF accs = <<>> THEN 0 ELSE Head(accs) + CurrencySum(Tail(accs))

CurrencyRaises(accs) == \E i \in DOMAIN accs : accs[i] = Missing

(***************************************************************************)
(* write_audio_data.  The working counter keeps insertion order, so it is  *)
(* a sequence of <<label, value>>.  A value is [int |-> n] or              *)
(* [str |-> sequence of characters].                                       *)
(***************************************************************************)
AudioKeys ==
    <<"Tracks Played", "Streams Played", "YouTube Streams Played",
      "Mixer Streams Played", "Twitch Streams Played", "Other Streams Played",
      "YouTube Videos Played", "SoundCloud Tracks Played",
      "Bandcamp Tracks Played", "Vimeo Tracks Played", "Mixer Tracks Played",
      "TwichTV Videos Played", "Other Tracks Played">>

Digits == <<"0", "1", "2", "3", "4", "5", "6", "7", "8", "9">>
IsDigit(ch) == \E i \in DOMAIN Digits : Digits[i] = ch
DigitVal(ch) == (CHOOSE i \in DOMAIN Digits : Digits[i] = ch) - 1

\* re.sub(r"\D", "", value)
RECURSIVE StripNonDigits(_)
StripNonDigits(s) ==
    IF s = <<>> THEN <<>>
    ELSE (IF IsDigit(Head(s)) THEN <<Head(s)>> ELSE <<>>) \o StripNonDigits(Tail(s))

\* int(digits), for a non-empty digit string
RECURSIVE ParseInt(_)
ParseInt(ds) ==
    IF ds = <<>> THEN 0
    ELSE 10 * ParseInt(SubSeq(ds, 1, Len(ds) - 1)) + DigitVal(ds[Len(ds)])

IsStr(v) == "str" \in DOMAIN v

\* lines 410-458; mart is <<>> when the cog is not loaded or has no get_value,
\* otherwise the sequence of the values get_value returns for AudioKeys
AudioCounter_swapped(active, all, mart, detailed) ==
    <<  <<"Active Music Players", [int |-> active]>>,
        <<"Music Players", [int |-> all]>>,
        <<"Inactive Music Players", [int |-> active - all]>>  >>
    \o (IF detailed /\ mart # <<>>
        THEN [i \in DOMAIN AudioKeys |-> <<AudioKeys[i], mart[i]>>]
        ELSE <<>>)
AudioCounter(active, all, mart, detailed) ==
    <<  <<"Active Music Players", [int |-> active]>>,
        <<"Music Players", [int |-> all]>>,
        <<"Inactive Music Players", [int |-> all - active]>>  >>
    \o (IF detailed /\ mart # <<>>
        THEN [i \in DOMAIN AudioKeys |-> <<AudioKeys[i], mart[i]>>]
        ELSE <<>>)

\* lines 460-463
RECURSIVE AudioLoop(_, _, _)
AudioLoop(ns, counter, i) ==
    IF i > Len(counter) THEN [raised |-> FALSE, ns |-> ns]
    ELSE LET key == counter[i][1]
             value == counter[i][2]
         IN  IF IsStr(value)
             THEN LET ds == StripNonDigits(value.str)
                  IN  IF ds = <<>> THEN [raised |-> TRUE, ns |-> ns]
                      ELSE AudioLoop(Put(ns, key, ParseInt(ds)), counter, i + 1)
             ELSE AudioLoop(Put(ns, key, value.int), counter, i + 1)

(***************************************************************************)
(* write_adventure_data.  raw is the sequence of the users' save records;  *)
(* a record is a function from some of "adventures", "rebirths",           *)
(* "set_items" to their values, "adventures" being a function from stat    *)
(* names to numbers.  Bad stands for a value that is not a number.         *)
(***************************************************************************)
Bad == -1
AdvStats == {"wins", "loses", "fight", "spell", "talk", "pray", "run", "fumbles"}
AdvLabels ==
    [set_items |-> "Set Items", rebirths |-> "Rebirths", wins |-> "Wins",
     loses |-> "Losses", fight |-> "Physical Attacks",
     spell |-> "Magical Attacks", talk |-> "Diplomatic Attacks",
     pray |-> "Prayers", run |-> "Retreats", fumbles |-> "Fumbles"]
Get(m, k, d) == IF k \in DOMAIN m THEN m[k] ELSE d

\* lines 333-371: the flat user_data of one save record
AdvUserData(v) ==
    LET advs == Get(v, "adventures", [s \in AdvStats |-> 0])
        base == [k \in {"rebirths", "set_items"} |-> Get(v, k, 0)]
    IN  IF DOMAIN advs \cap AdvStats # {}
        THEN [k \in DOMAIN base \cup DOMAIN advs |->
                IF k \in DOMAIN advs THEN advs[k] ELSE base[k]]
        ELSE base

\* lines 373-384
RECURSIVE AdvCount(_, _)
AdvCount(c, users) ==
    IF users = <<>> THEN c
    ELSE LET u == AdvUserData(Head(users))
         IN  AdvCount([k \in DOMAIN AdvLabels |-> Get(c, k, 0) + Get(u, k, 0)],
                      Tail(users))

AdvRaises(users) ==
    \E i \in DOMAIN users :
        LET u == AdvUserData(users[i])
        IN  \E k \in DOMAIN AdvLabels : Get(u, k, 0) = Bad

(***************************************************************************)
(* Python floats (IEEE-754 binary64, round to nearest, ties to even), as   *)
(* far as lines 388-401 use them: the true division of two ints, the       *)
(* product of a float and an int, and the sum of two floats, all of        *)
(* non-negative values.  A float is [m |-> mantissa, e |-> exponent]: m is *)
(* the sequence of the MantissaBits bits of the significand, leading bit   *)
(* first and set, and e the power of two of the leading bit; zero has the  *)
(* empty mantissa.  A natural number of any size is the sequence of its    *)
(* bits, leading bit first.  The loops over the bits test carry, r and     *)
(* acc (never negative) so that each step is evaluated before the next.    *)
(***************************************************************************)
MantissaBits == 53

FZero == [m |-> <<>>, e |-> 0]

RECURSIVE BitsOf(_)
BitsOf(n) == IF n = 0 THEN <<>> ELSE Append(BitsOf(n \div 2), n % 2)

Zeros(n) == [i \in 1..n |-> 0]

\* bits + 1
IncBits(bits) ==
    LET zeros == {i \in DOMAIN bits : bits[i] = 0}
    IN  IF zeros = {} THEN <<1>> \o Zeros(Len(bits))
        ELSE LET j == CHOOSE i \in zeros : \A k \in zeros : k <= i
             IN  [i \in DOMAIN bits |->
                    IF i < j THEN bits[i] ELSE IF i = j THEN 1 ELSE 0]

\* x + y, the bits from i down still to add, acc the bits of the sum so far
RECURSIVE AddLoop(_, _, _, _, _)
AddLoop(x, y, i, carry, acc) ==
    IF i = 0 \/ carry < 0 \/ Len(acc) < 0 THEN BitsOf(carry) \o acc
    ELSE LET v == x[i] + y[i] + carry
         IN  AddLoop(x, y, i - 1, v \div 2, <<v % 2>> \o acc)

AddBits(x, y) ==
    LET n == IF Len(x) > Len(y) THEN Len(x) ELSE Len(y)
    IN  AddLoop(Zeros(n - Len(x)) \o x, Zeros(n - Len(y)) \o y, n, 0, <<>>)

\* the six bits of c, for c in 0..63, and the number six bits ending at
\* bits[i] stand for
Chunk(c) == [i \in 1..6 |-> (c \div <<32, 16, 8, 4, 2, 1>>[i]) % 2]
ChunkVal(bits, i) ==
    32 * bits[i - 5] + 16 * bits[i - 4] + 8 * bits[i - 3] + 4 * bits[i - 2]
    + 2 * bits[i - 1] + bits[i]

\* bits * c for a small c, six bits at a time, the bits from i down still
\* to multiply
RECURSIVE MulLoop(_, _, _, _, _)
MulLoop(bits, c, i, carry, acc) ==
    IF i = 0 \/ carry < 0 \/ Len(acc) < 0 THEN BitsOf(carry) \o acc
    ELSE LET v == ChunkVal(bits, i) * c + carry
         IN  MulLoop(bits, c, i - 6, v \div 64, Chunk(v % 64) \o acc)

\* bits * c without leading zeros, for bits # 0
MulBits(bits, c) ==
    LET padded == Zeros((6 - (Len(bits) % 6)) % 6) \o bits
        prod == MulLoop(padded, c, Len(padded), 0, <<>>)
        ones == {i \in DOMAIN prod : prod[i] = 1}
        first == CHOOSE i \in ones : \A k \in ones : i <= k
    IN  SubSeq(prod, first, Len(prod))

\* the float nearest to the number whose bits are `bits` (leading bit set, of
\* exponent e) followed by a tail that is non-zero iff sticky
RoundTo(bits, e, sticky) ==
    LET L == Len(bits)
        P == MantissaBits
    IN  IF L <= P THEN [m |-> bits \o Zeros(P - L), e |-> e]
        ELSE LET keep == SubSeq(bits, 1, P)
                 guard == bits[P + 1]
                 rest == sticky \/ \E i \in (P + 2)..L : bits[i] = 1
                 up == guard = 1 /\ (rest \/ keep[P] = 1)
                 inc == IncBits(keep)
             IN  IF ~up THEN [m |-> keep, e |-> e]
                 ELSE IF Len(inc) > P THEN [m |-> SubSeq(inc, 1, P), e |-> e + 1]
                 ELSE [m |-> inc, e |-> e]

\* acc followed by at least the next n bits of r / t, six bits at a time,
\* for 0 <= r < t, and the remainder left
RECURSIVE FracBits(_, _, _, _)
FracBits(r, t, n, acc) ==
    IF n <= 0 \/ r < 0 \/ Len(acc) < 0 THEN [bits |-> acc, r |-> r]
    ELSE LET v == 64 * r
         IN  FracBits(v % t, t, n - 6, acc \o Chunk(v \div t))

\* the number of zero bits r / t starts with after the point, for 0 < r < t
RECURSIVE LeadZeros(_, _)
LeadZeros(r, t) == IF 2 * r >= t THEN 0 ELSE 1 + LeadZeros(2 * r, t)

RECURSIVE Pow2(_)
Pow2(n) == IF n = 0 THEN 1 ELSE 2 * Pow2(n - 1)

\* w / t for ints w >= 0, t > 0
FDiv(w, t) ==
    IF w = 0 THEN FZero
    ELSE LET q == BitsOf(w \div t)
             r == w % t
         IN  IF q # <<>>
             THEN LET f == FracBits(r, t, MantissaBits + 1, q)
                  IN  RoundTo(f.bits, Len(q) - 1, f.r # 0)
             ELSE LET z == LeadZeros(r, t)
                      f == FracBits(r * Pow2(z), t, MantissaBits + 1, <<>>)
                  IN  RoundTo(f.bits, -(z + 1), f.r # 0)

\* x * c for a float x >= 0 and an int c > 0
FMul(x, c) ==
    IF x.m = <<>> THEN FZero
    ELSE LET prod == MulBits(x.m, c)
         IN  RoundTo(prod, x.e + Len(prod) - MantissaBits, FALSE)

\* a + b for floats a, b >= 0
FAdd(a, b) ==
    IF a.m = <<>> THEN b
    ELSE IF b.m = <<>> THEN a
    ELSE LET lo == IF a.e < b.e THEN a.e ELSE b.e
             sum == AddBits(a.m \o Zeros(a.e - lo), b.m \o Zeros(b.e - lo))
         IN  RoundTo(sum, lo + Len(sum) - MantissaBits, FALSE)

\* float(n) for an int n >= 0 below 2^MantissaBits
FInt(n) == IF n = 0 THEN FZero ELSE RoundTo(BitsOf(n), Len(BitsOf(n)) - 1, FALSE)

\* lines 388-395 and the `* 100` of lines 400-401: part / total * 100, or
\* 0 * 100 when total is 0 (the int 0, which equals the float 0.0)
Pct_ratio(part, total) ==
    IF total # 0 THEN FDiv(part, total) ELSE FZero
Pct(part, total) ==
    IF total # 0 THEN FMul(FDiv(part, total), 100) ELSE FZero

\* lines 386-401
PublishAdventure(ns, users) ==
    LET c == AdvCount(EmptyMap, users)
        n1 == Put(Put(ns, "Wins", 0), "Losses", 0)
        n2 == SetAttrs(n1, [l \in {AdvLabels[k] : k \in DOMAIN c} |->
                                c[CHOOSE k \in DOMAIN c : AdvLabels[k] = l]])
        total == n2["Wins"] + n2["Losses"]
    IN  Put(Put(Put(n2, "Adventures", total),
                "Win Percentage", Pct(n2["Wins"], total)),
            "Loss Percentage", Pct(n2["Losses"], total))

(***************************************************************************)
(* State.                                                                  *)
(***************************************************************************)
Collectors == {"bot", "currency", "shards", "audio", "adventure"}

VARIABLES
    pc,             \* update_task: "wait_ready", "loop", "running",
                    \* "sleep60", "sleep10"
    stats_ready,    \* bot._stats_ready.is_set()
    exc,            \* what update_task's `except Exception as exc` caught in
                    \* this cycle: "none", "join" or the collector it came from
    config,         \* the settings: lightmode, detailed, topgg
    guilds,         \* bot.guilds
    cpc,            \* position of each collector coroutine
    cres,           \* how each collector ended: "none" (not yet), "ok",
                    \* "skipped" (early return), "caught" (its own except
                    \* clause logged the exception), "raised" (the exception
                    \* left the coroutine)
    store,          \* bot.stats: category -> label -> value
    vote,           \* write_bot_data's get_votes call of this pass
    accounts,       \* write_currency_data's local `accounts`
    raw_accounts,   \* write_adventure_data's local `raw_accounts`
    passes          \* number of direct calls of write_bot_data (SpecBot)

vars ==
    <<pc, stats_ready, exc, config, guilds, cpc, cres, store, vote, accounts,
      raw_accounts, passes>>

Categories ==
    {"guilds", "bot", "shards", "audio", "currency", "guilds_regions",
     "guild_features", "guild_verification", "adventure"}

NoVote == [called |-> FALSE, resp |-> "none", raised |-> FALSE, data |-> EmptyMap]

\* init_bot_stats and the state before the task first runs
InitWith(cfg, gs) ==
    /\ pc = "wait_ready"
    /\ stats_ready = FALSE
    /\ exc = "none"
    /\ config = cfg
    /\ guilds = gs
    /\ cpc = [c \in Collectors |-> "idle"]
    /\ cres = [c \in Collectors |-> "none"]
    /\ store = [c \in Categories |-> EmptyMap]
    /\ vote = NoVote
    /\ accounts = <<>>
    /\ raw_accounts = <<>>
    /\ passes = 0

(***************************************************************************)
(* update_task and run_events.                                             *)
(***************************************************************************)
\* await bot.wait_until_red_ready()
HostReady ==
    /\ pc = "wait_ready"
    /\ pc' = "loop"
    /\ UNCHANGED <<stats_ready, exc, config, guilds, cpc, cres, store, vote,
                   accounts, raw_accounts, passes>>

\* top of the loop (after the sleep, if any): run_events creates the five
\* coroutines and hands them to asyncio.gather
StartCycle ==
    /\ pc \in {"loop", "sleep60", "sleep10"}
    /\ pc' = "running"
    /\ exc' = "none"
    /\ cpc' = [c \in Collectors |-> "start"]
    /\ cres' = [c \in Collectors |-> "none"]
    /\ vote' = NoVote
    /\ accounts' = <<>>
    /\ raw_accounts' = <<>>
    /\ UNCHANGED <<stats_ready, config, guilds, store, passes>>

\* asyncio.gather(...): the awaiter resumes when every child has finished
AllFinished_first == \E c \in Collectors : cpc[c] = "done"
AllFinished == \A c \in Collectors : cpc[c] = "done"

\* return_exceptions=True: a child's exception becomes its result
ReturnExceptions == TRUE

\* the exceptions `await run_events(...)` can raise in update_task: a failure
\* of the join itself, and a child's exception if gather propagates it
RaiseSources ==
    {"join"} \cup
    (IF ReturnExceptions THEN {} ELSE {c \in Collectors : cres[c] = "raised"})

\* try ... else: run_events returned
RunEventsReturn ==
    /\ pc = "running"
    /\ AllFinished
    /\ ~ReturnExceptions => \A c \in Collectors : cres[c] # "raised"
    /\ stats_ready' = (IF ~stats_ready THEN TRUE ELSE stats_ready)
    /\ pc' = "sleep60"
    /\ UNCHANGED <<exc, config, guilds, cpc, cres, store, vote, accounts,
                   raw_accounts, passes>>

\* try ... except Exception as exc: log, sleep 10
RunEventsRaise_ready(src) ==
    /\ pc = "running"
    /\ AllFinished
    /\ src \in RaiseSources
    /\ exc' = src
    /\ stats_ready' = TRUE
    /\ pc' = "sleep10"
    /\ UNCHANGED <<config, guilds, cpc, cres, store, vote, accounts,
                   raw_accounts, passes>>
RunEventsRaise(src) ==
    /\ pc = "running"
    /\ AllFinished
    /\ src \in RaiseSources
    /\ exc' = src
    /\ pc' = "sleep10"
    /\ UNCHANGED <<stats_ready, config, guilds, cpc, cres, store, vote,
                   accounts, raw_accounts, passes>>

Finish(c, res) ==
    /\ cpc' = [cpc EXCEPT ![c] = "done"]
    /\ cres' = [cres EXCEPT ![c] = res]

(***************************************************************************)
(* The collectors.  Each action runs one coroutine from one suspension     *)
(* point to the next; what it reads from the host is its parameter.        *)
(***************************************************************************)
\* the flags as write_bot_data uses them (lines 108-114)
Detailed == ~config.lightmode /\ config.detailed
Topgg == ~config.lightmode /\ config.topgg

\* write_bot_data up to the end of `await get_votes(bot)` (lines 108-131);
\* resp is the vote service's response
BotVotes(resp) ==
    /\ cpc["bot"] = "start"
    /\ IF Topgg
       THEN LET r == GetVotes(resp)
            IN  /\ vote' = [called |-> TRUE, resp |-> resp.name,
                            raised |-> r.raised, data |-> r.data]
                /\ IF r.raised
                   THEN Finish("bot", "caught")
                   ELSE /\ cpc' = [cpc EXCEPT !["bot"] = "tally"]
                        /\ UNCHANGED cres
       ELSE /\ vote' = NoVote
            /\ cpc' = [cpc EXCEPT !["bot"] = "tally"]
            /\ UNCHANGED cres
    /\ UNCHANGED <<pc, stats_ready, exc, config, guilds, store, accounts,
                   raw_accounts, passes>>

\* the rest of write_bot_data (lines 132-321); lat is bot.latency, fault a
\* host error raised while walking the guilds
BotTally(lat, shard_count, fault) ==
    /\ cpc["bot"] = "tally"
    /\ IF fault \/ lat = NaN
       THEN /\ Finish("bot", "caught")
            /\ UNCHANGED store
       ELSE /\ Finish("bot", "ok")
            /\ store' = PublishBot(store,
                            BotCounters(vote.data, lat, shard_count, guilds,
                                        config.lightmode, Detailed))
    /\ UNCHANGED <<pc, stats_ready, exc, config, guilds, vote, accounts,
                   raw_accounts, passes>>

\* write_currency_data up to the end of `await bank._config.all_users()`
CurrencyRead(accs, fault) ==
    /\ cpc["currency"] = "start"
    /\ IF fault
       THEN Finish("currency", "raised") /\ UNCHANGED accounts
       ELSE /\ cpc' = [cpc EXCEPT !["currency"] = "sum"]
            /\ accounts' = accs
            /\ UNCHANGED cres
    /\ UNCHANGED <<pc, stats_ready, exc, config, guilds, store, vote,
                   raw_accounts, passes>>

\* the loop and the setattr of write_currency_data (lines 476-481)
CurrencyWrite_bot ==
    /\ cpc["currency"] = "sum"
    /\ IF CurrencyRaises(accounts)
       THEN Finish("currency", "raised") /\ UNCHANGED store
       ELSE /\ Finish("currency", "ok")
            /\ store' = [store EXCEPT !.bot =
                            SetAttrs(@, Put(EmptyMap, "Currency In Circulation",
                                            CurrencySum(accounts)))]
    /\ UNCHANGED <<pc, stats_ready, exc, config, guilds, vote, accounts,
                   raw_accounts, passes>>
CurrencyWrite ==
    /\ cpc["currency"] = "sum"
    /\ IF CurrencyRaises(accounts)
       THEN Finish("currency", "raised") /\ UNCHANGED store
       ELSE /\ Finish("currency", "ok")
            /\ store' = [store EXCEPT !.currency =
                            SetAttrs(@, Put(EmptyMap, "Currency In Circulation",
                                            CurrencySum(accounts)))]
    /\ UNCHANGED <<pc, stats_ready, exc, config, guilds, vote, accounts,
                   raw_accounts, passes>>

\* write_shards_data: no suspension point
ShardsRun(lats) ==
    /\ cpc["shards"] = "start"
    /\ LET r == ShardsLoop(store.shards, lats, 1)
       IN  /\ store' = [store EXCEPT !.shards = r.ns]
           /\ Finish("shards", IF r.raised THEN "raised" ELSE "ok")
    /\ UNCHANGED <<pc, stats_ready, exc, config, guilds, vote, accounts,
                   raw_accounts, passes>>

\* write_audio_data up to `await config_cache.get_set_lightmode()`
AudioBegin_nolight ==
    /\ cpc["audio"] = "start"
    /\ cpc' = [cpc EXCEPT !["audio"] = "collect"]
    /\ UNCHANGED <<pc, stats_ready, exc, config, guilds, cres, store, vote,
                   accounts, raw_accounts, passes>>
AudioBegin ==
    /\ cpc["audio"] = "start"
    /\ IF config.lightmode
       THEN Finish("audio", "skipped")
       ELSE cpc' = [cpc EXCEPT !["audio"] = "collect"] /\ UNCHANGED cres
    /\ UNCHANGED <<pc, stats_ready, exc, config, guilds, store, vote, accounts,
                   raw_accounts, passes>>

\* the try block of write_audio_data (lines 409-465); fault is lavalink
\* raising
AudioWrite(active, all, mart, fault) ==
    /\ cpc["audio"] = "collect"
    /\ IF fault
       THEN Finish("audio", "caught") /\ UNCHANGED store
       ELSE LET r == AudioLoop(store.audio,
                               AudioCounter(active, all, mart, config.detailed),
                               1)
            IN  /\ store' = [store EXCEPT !.audio = r.ns]
                /\ Finish("audio", IF r.raised THEN "caught" ELSE "ok")
    /\ UNCHANGED <<pc, stats_ready, exc, config, guilds, vote, accounts,
                   raw_accounts, passes>>

\* write_adventure_data up to the end of `await adv_cog.config.all_users()`
\* (lines 325-330); loaded: the Adventure cog is loaded
AdventureRead(loaded, raw, fault) ==
    /\ cpc["adventure"] = "start"
    /\ IF ~loaded \/ config.lightmode
       THEN Finish("adventure", "skipped") /\ UNCHANGED raw_accounts
       ELSE IF fault
            THEN Finish("adventure", "caught") /\ UNCHANGED raw_accounts
            ELSE /\ cpc' = [cpc EXCEPT !["adventure"] = "tally"]
                 /\ raw_accounts' = raw
                 /\ UNCHANGED cres
    /\ UNCHANGED <<pc, stats_ready, exc, config, guilds, store, vote, accounts,
                   passes>>

\* the rest of write_adventure_data (lines 331-403)
AdventureWrite ==
    /\ cpc["adventure"] = "tally"
    /\ IF AdvRaises(raw_accounts)
       THEN Finish("adventure", "caught") /\ UNCHANGED store
       ELSE /\ Finish("adventure", "ok")
            /\ store' = [store EXCEPT !.adventure =
                            PublishAdventure(@, raw_accounts)]
    /\ UNCHANGED <<pc, stats_ready, exc, config, guilds, vote, accounts,
                   raw_accounts, passes>>

(***************************************************************************)
(* What the host hands to the collectors.                                  *)
(***************************************************************************)
Configs == [lightmode : BOOLEAN, detailed : BOOLEAN, topgg : BOOLEAN]

VoteBodies ==
    {EmptyMap} \cup [points : 0..MaxVotes, monthlyPoints : 0..MaxVotes]

VoteResponse(name, key, error, status, body) ==
    [name |-> name, key |-> key, error |-> error, status |-> status,
     body |-> body]

VoteResponses ==
    {VoteResponse("no_key", FALSE, "none", 200, EmptyMap),
     VoteResponse("status", TRUE, "none", 500, EmptyMap),
     VoteResponse("timeout", TRUE, "TimeoutError", 200, EmptyMap),
     VoteResponse("timeout", TRUE, "ServerTimeoutError", 200, EmptyMap),
     VoteResponse("transport", TRUE, "ClientConnectorError", 200, EmptyMap)}
    \cup {VoteResponse("ok", TRUE, "none", 200, b) : b \in VoteBodies}

\* what MartTools' get_value returns for the thirteen counters
MartReplies ==
    {<<>>, [i \in DOMAIN AudioKeys |-> [int |-> 7]],
     [i \in DOMAIN AudioKeys |->
        IF i = 2 THEN [str |-> <<"N", "/", "A">>]
        ELSE [str |-> <<"0", ",", "7">>]]}

\* sequences over S of length at most n
RECURSIVE SeqsUpTo(_, _)
SeqsUpTo(S, n) ==
    IF n = 0 THEN {<<>>}
    ELSE LET shorter == SeqsUpTo(S, n - 1)
         IN  shorter \cup {Append(q, x) : q \in shorter, x \in S}

(***************************************************************************)
(* Spec: the task as it runs, with a small host.                           *)
(***************************************************************************)
SpecGuildLists ==
    {<<Guild(1, FALSE, 1, {Me}, 1), Guild(2, TRUE, 2, MemberIds, MaxMembers)>>}

Init ==
    \E cfg \in {c \in Configs : ~c.topgg}, gs \in SpecGuildLists :
        InitWith(cfg, gs)

BotStep ==
    \/ \E resp \in VoteResponses : BotVotes(resp)
    \/ \E lat \in {MaxLatency, NaN}, fault \in BOOLEAN :
            BotTally(lat, MaxShards, fault)

CurrencyStep ==
    \/ \E accs \in {<<MaxBalance>>, <<MaxBalance, Missing>>}, fault \in BOOLEAN :
            CurrencyRead(accs, fault)
    \/ CurrencyWrite

ShardsStep ==
    \E lats \in SeqsUpTo({MaxLatency, Inf}, MaxShards) : ShardsRun(lats)

AudioStep ==
    \/ AudioBegin
    \/ \E mart \in MartReplies, fault \in BOOLEAN :
            AudioWrite(0, MaxPlayers, mart, fault)

AdventureStep ==
    \/ \E loaded \in BOOLEAN,
          raw \in {<<[adventures |-> [wins |-> 1, loses |-> 2]]>>,
                   <<[adventures |-> [wins |-> Bad, loses |-> 1]]>>},
          fault \in BOOLEAN :
            AdventureRead(loaded, raw, fault)
    \/ AdventureWrite

Next ==
    \/ HostReady
    \/ StartCycle
    \/ RunEventsReturn
    \/ \E src \in {"join"} \cup Collectors : RunEventsRaise(src)
    \/ BotStep
    \/ CurrencyStep
    \/ ShardsStep
    \/ AudioStep
    \/ AdventureStep

Spec == Init /\ [][Next]_vars

(***************************************************************************)
(* SpecBot: passes of write_bot_data over a guild list that changes        *)
(* between the passes (a guild joins, changes or leaves while the task     *)
(* sleeps).                                                                *)
(***************************************************************************)
\* member_count is the size of the member list, or absent for a guild
\* without members
GuildUniverse ==
    {Guild(id, u, t, ms, IF missing THEN Missing ELSE Cardinality(ms)) :
        id \in GuildIds, u \in BOOLEAN, t \in Tiers,
        ms \in SUBSET MemberIds, missing \in BOOLEAN} \
    {g \in {Guild(id, u, t, ms, Missing) :
                id \in GuildIds, u \in BOOLEAN, t \in Tiers,
                ms \in SUBSET MemberIds} : g.members # {}}

\* bot.guilds without the guild id
WithoutGuild(gs, id) == SelectSeq(gs, LAMBDA g : g.id # id)

\* bot.guilds with g added, or put in the place of the guild of the same id
WithGuild(gs, g) ==
    SelectSeq(gs, LAMBDA h : h.id < g.id) \o <<g>>
    \o SelectSeq(gs, LAMBDA h : h.id > g.id)

\* write_bot_data is called again
StartPass ==
    /\ cpc["bot"] \in {"idle", "done"}
    /\ passes < MaxPasses
    /\ passes' = passes + 1
    /\ cpc' = [cpc EXCEPT !["bot"] = "start"]
    /\ cres' = [cres EXCEPT !["bot"] = "none"]
    /\ vote' = NoVote

GuildUpdate(g) ==
    /\ StartPass
    /\ guilds' = WithGuild(guilds, g)
    /\ UNCHANGED <<pc, stats_ready, exc, config, store, accounts, raw_accounts>>

GuildRemove(id) ==
    /\ StartPass
    /\ guilds' = WithoutGuild(guilds, id)
    /\ UNCHANGED <<pc, stats_ready, exc, config, store, accounts, raw_accounts>>

InitBot ==
    \E cfg \in {c \in Configs : c.lightmode => ~c.detailed /\ ~c.topgg} :
        InitWith(cfg, <<>>)

NextBot ==
    \/ \E g \in GuildUniverse : GuildUpdate(g)
    \/ \E id \in GuildIds : GuildRemove(id)
    \/ \E resp \in VoteResponses : BotVotes(resp)
    \/ \E fault \in BOOLEAN : BotTally(MaxLatency, MaxShards, fault)

SpecBot == InitBot /\ [][NextBot]_vars

(***************************************************************************)
(* SpecAudio: passes of write_audio_data over a player registry of any     *)
(* size.  The two lengths are two reads of the host, drawn independently.  *)
(***************************************************************************)
\* write_audio_data is called again
AudioPass ==
    /\ cpc["audio"] \in {"idle", "done"}
    /\ passes < MaxPasses
    /\ passes' = passes + 1
    /\ cpc' = [cpc EXCEPT !["audio"] = "start"]
    /\ cres' = [cres EXCEPT !["audio"] = "none"]
    /\ UNCHANGED <<pc, stats_ready, exc, config, guilds, store, vote, accounts,
                   raw_accounts>>

InitAudio == \E cfg \in {c \in Configs : ~c.topgg} : InitWith(cfg, <<>>)

NextAudio ==
    \/ AudioPass
    \/ AudioBegin
    \/ \E active \in 0..MaxAudioPlayers, all \in 0..MaxAudioPlayers,
          mart \in MartReplies, fault \in BOOLEAN :
            AudioWrite(active, all, mart, fault)

SpecAudio == InitAudio /\ [][NextAudio]_vars

(***************************************************************************)
(* SpecAdventure: passes of write_adventure_data over the save records of  *)
(* the Adventure cog.                                                      *)
(***************************************************************************)
\* save records: with both counters (no loss or MaxAdventures losses), with
\* "wins" only, without "adventures", and with a counter that is not a
\* number
AdvRecords ==
    {[adventures |-> [wins |-> w, loses |-> l]] :
        w \in 0..MaxAdventures, l \in {0, MaxAdventures}}
    \cup {[adventures |-> [wins |-> MaxAdventures]],
          [rebirths |-> 1],
          [adventures |-> [wins |-> Bad, loses |-> 1]]}

\* write_adventure_data is called again
AdventurePass ==
    /\ cpc["adventure"] \in {"idle", "done"}
    /\ passes < MaxPasses
    /\ passes' = passes + 1
    /\ cpc' = [cpc EXCEPT !["adventure"] = "start"]
    /\ cres' = [cres EXCEPT !["adventure"] = "none"]
    /\ raw_accounts' = <<>>
    /\ UNCHANGED <<pc, stats_ready, exc, config, guilds, store, vote, accounts>>

InitAdventure ==
    \E cfg \in {c \in Configs : ~c.topgg /\ ~c.detailed} : InitWith(cfg, <<>>)

NextAdventure ==
    \/ AdventurePass
    \/ \E loaded \in BOOLEAN, raw \in SeqsUpTo(AdvRecords, MaxUsers),
          fault \in BOOLEAN :
            AdventureRead(loaded, raw, fault)
    \/ AdventureWrite

SpecAdventure == InitAdventure /\ [][NextAdventure]_vars

(***************************************************************************)
(* Properties.                                                             *)
(***************************************************************************)
Sleeping == pc \in {"sleep60", "sleep10"}
BotPassed == cpc["bot"] = "done" /\ cres["bot"] = "ok"

\* C1: the "stats ready" signal is set exactly once, by the step that ends
\* the first cycle whose run_events returned; a cycle that ended in a
\* top-level exception does not set it, and nothing sets or clears it later.
C1_ReadyOnce ==
    /\ ~stats_ready
    /\ [][/\ stats_ready' # stats_ready =>
                ~stats_ready /\ pc = "running" /\ pc' = "sleep60"
          /\ pc = "running" /\ pc' = "sleep60" => stats_ready'
          /\ pc = "running" /\ pc' = "sleep10" => stats_ready' = stats_ready
          /\ stats_ready => stats_ready']_vars

\* a cycle ended in a top-level exception after the signal was set
C1_Witness == stats_ready /\ pc = "sleep10" /\ exc = "join"

\* C2: whenever an error of a cycle was not caught inside a collector (the
\* currency or shard-latency collector raising, or a failure of the join),
\* the cycle ends in the 10-unit pause instead of the 60-unit one, and after
\* either pause a new cycle starts.
C2_Original ==
    /\ Sleeping /\ (\E c \in Collectors : cres[c] = "raised") => pc = "sleep10"
    /\ Sleeping /\ exc # "none" => pc = "sleep10"
    /\ Sleeping \/ pc = "loop" => ENABLED StartCycle

\* C3: every cycle starts the five collectors and ends only when all five
\* have finished, whichever of them failed; those that finished without a
\* fault have written.
C3_AllCollectorsFinish ==
    /\ pc = "running" => \A c \in Collectors : cpc[c] # "idle"
    /\ Sleeping => \A c \in Collectors : cpc[c] = "done" /\ cres[c] # "none"
    /\ Sleeping /\ cres["bot"] = "ok" => store.guilds["Total"] = Len(guilds)
    /\ Sleeping /\ cres["currency"] = "ok" =>
            store.currency["Currency In Circulation"] = CurrencySum(accounts)
    /\ Sleeping /\ cres["audio"] = "ok" => "Music Players" \in DOMAIN store.audio
    /\ Sleeping /\ cres["adventure"] = "ok" =>
            "Adventures" \in DOMAIN store.adventure

C3_Witness ==
    /\ Sleeping
    /\ cres["shards"] = "raised"
    /\ \A c \in Collectors \ {"shards"} : cres[c] = "ok"

\* the categories each collector writes
Writes(c) ==
    CASE c = "bot" -> {"bot", "guilds", "guilds_regions", "guild_features",
                      "guild_verification"}
      [] c = "currency" -> {"currency"}
      [] c = "shards" -> {"shards"}
      [] c = "audio" -> {"audio"}
      [] c = "adventure" -> {"adventure"}

\* C4 as stated, for what it says of the store: when a collector ends a
\* cycle with a fault (logged by its own except clause, or leaving the
\* coroutine), the categories it writes are as they were before.
C4_Claim ==
    [][\A c \in Collectors :
          cres[c] = "none" /\ cres'[c] \in {"caught", "raised"} =>
              \A cat \in Writes(c) : store'[cat] = store[cat]]_vars

\* what the pass of write_bot_data that just ended computed (SpecBot)
Computed ==
    BotCounters(vote.data, MaxLatency, MaxShards, guilds, config.lightmode,
                Detailed)

\* C5 as stated: after a successful pass each category of write_bot_data
\* holds exactly the labels this pass computed.
C5_Claim ==
    BotPassed =>
        /\ DOMAIN store.bot = DOMAIN Computed.counter
        /\ DOMAIN store.guilds = DOMAIN Computed.server_counter
        /\ DOMAIN store.guild_features = DOMAIN Computed.features_count
        /\ DOMAIN store.guild_verification = DOMAIN Computed.verify_count

VoteFailures == {"no_key", "status", "timeout", "transport"}

\* C6 as stated: without a credential, on a status other than 200, on a
\* timeout and on any other transport error get_votes raises nothing and
\* returns an empty mapping.
C6_Claim ==
    vote.called /\ vote.resp \in VoteFailures =>
        ~vote.raised /\ vote.data = EmptyMap

\* the labels of category cat that a step creates or changes
Changed(cat) ==
    {l \in DOMAIN store'[cat] :
        l \notin DOMAIN store[cat] \/ store'[cat][l] # store[cat][l]}

LightLabels_original(cat) ==
    CASE cat = "bot" -> {"Unique Users", "Bots", "Humans"}
      [] cat = "shards" -> {ToString(i) : i \in 1..(MaxShards + 1)}
      [] cat = "currency" -> {"Currency In Circulation"}
      [] OTHER -> {}

LightLabels(cat) ==
    CASE cat = "bot" ->
            {"Unique Users", "Bots", "Humans", "Discord Latency", "Shards"}
      [] cat = "guilds" -> {"Total", "Members", "Unavailable"}
      [] cat = "shards" -> {ToString(i) : i \in 1..(MaxShards + 1)}
      [] cat = "currency" -> {"Currency In Circulation"}
      [] OTHER -> {}

Available == SelectSeq(guilds, LAMBDA g : ~g.unavailable)
UnavailableIds == {guilds[i].id : i \in {j \in DOMAIN guilds : guilds[j].unavailable}}

\* what a pass over the available guilds alone computes
ComputedAvailable ==
    BotCounters(vote.data, MaxLatency, MaxShards, Available, config.lightmode,
                Detailed)

\* the function f without the keys K
Without(f, K) == [k \in DOMAIN f \ K |-> f[k]]

\* every label of c but those of K is published in ns with c's value
Published(ns, c, K) == \A k \in DOMAIN c \ K : k \in DOMAIN ns /\ ns[k] = c[k]

\* the count of "Unavailable" is the number of unavailable guilds, and all
\* the other tallies but those of K are those of the available guilds alone
UnavailableOnlyCounted(K) ==
    /\ UnavailableIds # {} =>
            /\ "Unavailable" \in DOMAIN store.guilds
            /\ store.guilds["Unavailable"] = Cardinality(UnavailableIds)
    /\ Without(Computed.server_counter, K \cup {"Unavailable"})
            = Without(ComputedAvailable.server_counter, K)
    /\ Computed.counter = ComputedAvailable.counter
    /\ Computed.features_count = ComputedAvailable.features_count
    /\ Computed.verify_count = ComputedAvailable.verify_count
    /\ Published(store.guilds, ComputedAvailable.server_counter, K)
    /\ Published(store.bot, ComputedAvailable.counter, {})
    /\ Published(store.guild_features, ComputedAvailable.features_count, {})
    /\ Published(store.guild_verification, ComputedAvailable.verify_count, {})

\* C8 as stated: an unavailable guild is counted in "Unavailable" and in no
\* other tally of the pass, the guild total included.
C8_Original == BotPassed => UnavailableOnlyCounted({})

\* C8 amended: an unavailable guild is counted in "Unavailable" and in the
\* guild-level "Total" (the length of the guild list), and in no other
\* tally of the pass.
C8_Amended == BotPassed => UnavailableOnlyCounted({"Total"})

C8_Witness ==
    /\ BotPassed
    /\ \E i \in DOMAIN guilds :
            /\ guilds[i].unavailable
            /\ guilds[i].members = MemberIds
            /\ guilds[i].premium_tier # 0
    /\ \E i \in DOMAIN guilds : ~guilds[i].unavailable /\ guilds[i].members # {}
    /\ store.guilds["Total"] = 2
    /\ store.guilds["Unavailable"] = 1

\* C9 as stated: after a successful pass outside light mode the published
\* tier counts add up to at most the published "Nitro Boosted".
C9_Claim ==
    BotPassed /\ ~config.lightmode =>
        Val(store.guilds, "Tier 1 Nitro") + Val(store.guilds, "Tier 2 Nitro")
            + Val(store.guilds, "Tier 3 Nitro")
        <= Val(store.guilds, "Nitro Boosted")

\* C10 as stated: after a successful pass the published "Unique Users" is
\* at most the published "Members".
C10_Claim ==
    BotPassed => Val(store.bot, "Unique Users") <= Val(store.guilds, "Members")

AudioPassed == cpc["audio"] = "done" /\ cres["audio"] = "ok"

\* C11 as stated: after every successful audio pass the published "Inactive
\* Music Players" is "Music Players" minus "Active Music Players", and it is
\* never negative, whatever the non-negative active and total counts.
C11_Original ==
    AudioPassed =>
        /\ store.audio["Inactive Music Players"] =
                store.audio["Music Players"] - store.audio["Active Music Players"]
        /\ store.audio["Inactive Music Players"] >= 0

\* C11 amended: after every successful audio pass the published "Inactive
\* Music Players" is "Music Players" minus "Active Music Players"; it is
\* non-negative exactly when the active count is at most the total count.
C11_Amended ==
    AudioPassed =>
        /\ store.audio["Inactive Music Players"] =
                store.audio["Music Players"] - store.audio["Active Music Players"]
        /\ store.audio["Inactive Music Players"] >= 0 <=>
                store.audio["Active Music Players"] <= store.audio["Music Players"]

\* a successful pass over a registry with an active and an inactive player
C11_Witness ==
    /\ AudioPassed
    /\ store.audio["Active Music Players"] = 1
    /\ store.audio["Music Players"] = 2
    /\ store.audio["Inactive Music Players"] = 1

AdventurePassed == cpc["adventure"] = "done" /\ cres["adventure"] = "ok"

\* the counter k of the save records, summed over all users
RECURSIVE SumStat(_, _)
SumStat(raw, k) ==
    IF raw = <<>> THEN 0
    ELSE Get(Get(Head(raw), "adventures", [wins |-> 0, loses |-> 0]), k, 0)
         + SumStat(Tail(raw), k)

Hundred == FInt(100)

RECURSIVE BitsPlus(_, _)
BitsPlus(bits, k) == IF k = 0 THEN bits ELSE BitsPlus(IncBits(bits), k - 1)

\* x is at most n units in the last place of 100.0 away from 100.0
NearHundred(x, n) ==
    /\ x.e = Hundred.e
    /\ \E k \in 0..n : BitsPlus(x.m, k) = Hundred.m \/ BitsPlus(Hundred.m, k) = x.m

PctSum == FAdd(store.adventure["Win Percentage"], store.adventure["Loss Percentage"])

\* C12 as stated: after every successful adventure pass "Adventures" is
\* "Wins" + "Losses" summed over all user records; when that total is
\* greater than 0 the two percentages add up to 100, and when it is 0 both
\* percentages are 0.
C12_Original ==
    AdventurePassed =>
        /\ store.adventure["Adventures"] =
                SumStat(raw_accounts, "wins") + SumStat(raw_accounts, "loses")
        /\ store.adventure["Adventures"] > 0 => PctSum = Hundred
        /\ store.adventure["Adventures"] = 0 =>
                /\ store.adventure["Win Percentage"] = FZero
                /\ store.adventure["Loss Percentage"] = FZero

\* C12 amended: as C12, but when the total is greater than 0 the two
\* percentages, each rounded as a float, add up to 100 to within two units
\* in the last place (2^-45), not always to 100 exactly.
C12_Amended ==
    AdventurePassed =>
        /\ store.adventure["Adventures"] =
                SumStat(raw_accounts, "wins") + SumStat(raw_accounts, "loses")
        /\ store.adventure["Adventures"] > 0 => NearHundred(PctSum, 2)
        /\ store.adventure["Adventures"] = 0 =>
                /\ store.adventure["Win Percentage"] = FZero
                /\ store.adventure["Loss Percentage"] = FZero

\* a successful pass over records with one win and two losses: the
\* percentages 33.33333333333333 and 66.66666666666666 add up to
\* 99.99999999999999
C12_Witness ==
    /\ AdventurePassed
    /\ store.adventure["Wins"] = 1
    /\ store.adventure["Losses"] = 2
    /\ store.adventure["Adventures"] = 3
    /\ PctSum # Hundred
    /\ NearHundred(PctSum, 1)

\* C13: single writer per category.  Under every interleaving of the five
\* collectors, a step that changes a category of the store is a step of the
\* one collector that owns the category (bot, guilds, guilds_regions,
\* guild_features, guild_verification: the bot/guild collector; audio,
\* shards, currency, adventure: the collector of that name), taken while
\* that collector runs, and no two collectors own the same category.
C13_SingleWriter ==
    [][/\ \A cat \in Categories :
            store'[cat] # store[cat] =>
                \E c \in Collectors :
                    /\ cat \in Writes(c)
                    /\ cpc[c] \notin {"idle", "done"}
                    /\ cpc'[c] # cpc[c]
                    /\ \A d \in Collectors \ {c} : cpc'[d] = cpc[d]
       /\ \A c \in Collectors : \A d \in Collectors \ {c} :
            Writes(c) \cap Writes(d) = {}
       /\ \A cat \in Categories : \E c \in Collectors : cat \in Writes(c)]_vars

\* the audio, shard and currency collectors have written while the bot/guild
\* and adventure collectors are in the middle of their runs
C13_Witness ==
    /\ pc = "running"
    /\ cpc["bot"] = "tally"
    /\ cpc["adventure"] = "tally"
    /\ cres["audio"] = "ok" /\ store.audio # EmptyMap
    /\ cres["shards"] = "ok" /\ store.shards # EmptyMap
    /\ cres["currency"] = "ok" /\ store.currency # EmptyMap
    /\ store.bot = EmptyMap
    /\ store.adventure = EmptyMap

====
